---- MODULE Spec2Model ----
(***************************************************************************)
(* Model of the screener service (screener-service/src):                   *)
(*   - POST /scan: routes.scan -> ScreenerService.scan ->                  *)
(*     ScreenerService._build_condition, with the external query executor  *)
(*     (Query.get_scanner_data) as a nondeterministic collaborator;        *)
(*   - GET /tickers/search: routes.search_tickers -> routes._load_tickers, *)
(*     with the tickers file as the environment and the module-level       *)
(*     _tickers_cache as the only shared state.                            *)
(*                                                                         *)
(* Python values are encoded uniformly so that values of different Python  *)
(* types can be compared:                                                  *)
(*   - an Optional[list] is [isNone |-> BOOLEAN, val |-> sequence];        *)
(*   - a filter value is [type |-> "int"|"str"|"list", items |-> seq];     *)
(*   - a str that the code inspects (ticker name, description, query) is   *)
(*     a sequence of one-character strings.                                *)
(***************************************************************************)
EXTENDS Integers, Sequences, FiniteSets, TLC

VARIABLES
    scanPc,        \* "idle" | "received" | "done": progress of the /scan request
    scanReq,       \* the ScanRequest body posted to /scan
    scanResp,      \* the HTTP response of /scan
    execLog,       \* calls of Query.get_scanner_data made for this request
    execRaised,    \* the exception type the executor raised ("none" if none)
    file,          \* content of data/tickers.json (TICKERS_FILE)
    cache,         \* routes._tickers_cache
    pc,            \* per search request: "idle" | "pending" | "done"
    req,           \* per search request: its query parameters q, limit
    resp,          \* per search request: its HTTP response
    obs,           \* per search request: what its handler found when it ran
    fileProbes,    \* number of TICKERS_FILE.exists() calls so far
    fileOpens,     \* number of open(TICKERS_FILE) calls so far
    refreshes,     \* number of out-of-process rewrites of the tickers file begun
    writer         \* "idle" | "writing": position of fetch_tickers.save_tickers

scanVars == <<scanPc, scanReq, scanResp, execLog, execRaised>>
searchVars == <<file, cache, pc, req, resp, obs, fileProbes, fileOpens, refreshes, writer>>
vars == <<scanPc, scanReq, scanResp, execLog, execRaised,
          file, cache, pc, req, resp, obs, fileProbes, fileOpens, refreshes, writer>>

(***************************************************************************)
(* Bounds of the model.                                                    *)
(***************************************************************************)
MaxFilters == 2
MaxCols == 2
MaxTickers == 3
MaxRequests == 3
MaxRefreshes == 2

(***************************************************************************)
(* Python Optional[...]                                                    *)
(***************************************************************************)
None == [isNone |-> TRUE, val |-> <<>>]
Some(v) == [isNone |-> FALSE, val |-> v]

\* Python truthiness of an Optional[list]: None and [] are falsy.
Truthy(o) == ~o.isNone /\ Len(o.val) > 0

(***************************************************************************)
(*                         POST /scan                                      *)
(***************************************************************************)

\* models.FilterOperator
FilterOperator ==
    {"gt", "gte", "lt", "lte", "eq", "neq", "between", "not_between", "in", "not_in"}

\* isinstance(value, list)
IsList(value) == value.type = "list"

\* pydantic validation of one Filter: op must be a FilterOperator literal; the
\* value union admits any scalar and any list of numbers or of strings.
ValidFilter_AnyOp(f) ==
    /\ f.value.type \in {"int", "str", "list"}
    /\ (f.value.type # "list" => Len(f.value.items) = 1)
ValidFilter(f) ==
    /\ f.op \in FilterOperator
    /\ f.value.type \in {"int", "str", "list"}
    /\ (f.value.type # "list" => Len(f.value.items) = 1)

\* pydantic validation of ScanRequest: columns has min_length=1, every filter
\* is a valid Filter.
ValidScanRequest(r) ==
    /\ Len(r.columns) >= 1
    /\ (~r.filters.isNone =>
            \A i \in 1..Len(r.filters.val) : ValidFilter(r.filters.val[i]))

NoCond == [col |-> "", method |-> "", args |-> <<>>]
NoError == [type |-> "none", msg |-> "", op |-> ""]
ValueErrorOf(msg, op) == [type |-> "ValueError", msg |-> msg, op |-> op]
Built(c) == [raised |-> FALSE, cond |-> c, error |-> NoError]
Raised(e) == [raised |-> TRUE, cond |-> NoCond, error |-> e]

\* The call on Column(field) that a comparison operator stands for.
Comparison(op) ==
    CASE op = "gt" -> "__gt__"
      [] op = "gte" -> "__ge__"
      [] op = "lt" -> "__lt__"
      [] op = "lte" -> "__le__"
      [] op = "eq" -> "__eq__"
      [] op = "neq" -> "__ne__"

\* The arity check of between / not_between.
BetweenArgsBad_LenOnlyBelow(value) == ~IsList(value) \/ Len(value.items) < 2
BetweenArgsBad(value) == ~IsList(value) \/ Len(value.items) # 2

\* The type check of in / not_in.
InArgsBad_Never(value) == FALSE
InArgsBad(value) == ~IsList(value)

\* ScreenerService._build_condition: the condition built from one filter, or
\* the ValueError it raises.
BuildCondition(f) ==
    IF f.op \in {"gt", "gte", "lt", "lte", "eq", "neq"}
    THEN Built([col |-> f.field, method |-> Comparison(f.op), args |-> <<f.value>>])
    ELSE IF f.op = "between"
    THEN IF BetweenArgsBad(f.value)
         THEN Raised(ValueErrorOf("requires a list of exactly 2 values", "between"))
         ELSE Built([col |-> f.field, method |-> "between",
                     args |-> <<[type |-> "item", items |-> <<f.value.items[1]>>],
                                [type |-> "item", items |-> <<f.value.items[2]>>]>>])
    ELSE IF f.op = "not_between"
    THEN IF BetweenArgsBad(f.value)
         THEN Raised(ValueErrorOf("requires a list of exactly 2 values", "not_between"))
         ELSE Built([col |-> f.field, method |-> "not_between",
                     args |-> <<[type |-> "item", items |-> <<f.value.items[1]>>],
                                [type |-> "item", items |-> <<f.value.items[2]>>]>>])
    ELSE IF f.op = "in"
    THEN IF InArgsBad(f.value)
         THEN Raised(ValueErrorOf("requires a list of values", "in"))
         ELSE Built([col |-> f.field, method |-> "isin", args |-> <<f.value>>])
    ELSE IF f.op = "not_in"
    THEN IF InArgsBad(f.value)
         THEN Raised(ValueErrorOf("requires a list of values", "not_in"))
         ELSE Built([col |-> f.field, method |-> "not_in", args |-> <<f.value>>])
    ELSE Raised(ValueErrorOf("Unknown filter operator", f.op))

\* [self._build_condition(f) for f in request.filters]: the filters are
\* translated in list order and the first ValueError ends the comprehension.
RECURSIVE BuildConditions(_, _, _)
BuildConditions(filters, i, acc) ==
    IF i > Len(filters)
    THEN [raised |-> FALSE, conds |-> acc, error |-> NoError]
    ELSE LET b == BuildCondition(filters[i]) IN
         IF b.raised
         THEN [raised |-> TRUE, conds |-> <<>>, error |-> b.error]
         ELSE BuildConditions(filters, i + 1, Append(acc, b.cond))

\* columns_to_select: a copy of the requested columns with "name" inserted at
\* index 0 when it is not among them.
ColumnsToSelect_Append(columns) ==
    IF \E i \in 1..Len(columns) : columns[i] = "name"
    THEN columns
    ELSE Append(columns, "name")
ColumnsToSelect(columns) ==
    IF \E i \in 1..Len(columns) : columns[i] = "name"
    THEN columns
    ELSE <<"name">> \o columns

\* query.where(conditions[0]) for one condition, query.where2(And(*conditions))
\* otherwise; no where call at all when request.filters is None or empty.
NoPredicate == [kind |-> "none", conds |-> <<>>]
Predicate_FirstOnly(conds) ==
    IF Len(conds) >= 1
    THEN [kind |-> "where", conds |-> <<conds[1]>>]
    ELSE [kind |-> "where2_And", conds |-> conds]
Predicate(conds) ==
    IF Len(conds) = 1
    THEN [kind |-> "where", conds |-> conds]
    ELSE [kind |-> "where2_And", conds |-> conds]

\* Exception types the executor is taken to raise, and Python's subclass
\* relation to ValueError (json.JSONDecodeError derives from ValueError,
\* requests' HTTPError does not).
ExecutorExceptions == {"JSONDecodeError", "HTTPError"}
IsValueError(exc) == exc \in {"ValueError", "JSONDecodeError"}

\* Outcomes of Query.get_scanner_data: (count, df) or an exception.
ExecutorOutcomes ==
    [kind : {"ok"}, exc : {"none"}, count : {0}, rows : {<<>>}]
    \cup [kind : {"ok"}, exc : {"none"}, count : {7}, rows : {<<"row1", "row2">>}]
    \cup [kind : {"raise"}, exc : ExecutorExceptions, count : {0}, rows : {<<>>}]

\* ScreenerService.scan: what the service does with a validated request when
\* the executor would answer ex. The result names the calls made to the
\* executor, and either the ScanResponse fields or the exception raised.
ScanService(r, ex) ==
    LET columns == ColumnsToSelect(r.columns)
        built == IF Truthy(r.filters)
                 THEN BuildConditions(r.filters.val, 1, <<>>)
                 ELSE [raised |-> FALSE, conds |-> <<>>, error |-> NoError]
        call == [markets |-> r.markets,
                 columns |-> columns,
                 predicate |-> IF Truthy(r.filters)
                               THEN Predicate(built.conds) ELSE NoPredicate,
                 limit |-> r.limit]
    IN  IF built.raised
        THEN [raised |-> TRUE, error |-> built.error, origin |-> "filter",
              calls |-> <<>>, results |-> <<>>, total |-> 0]
        ELSE IF ex.kind = "raise"
        THEN [raised |-> TRUE,
              error |-> [type |-> ex.exc, msg |-> "executor failure", op |-> ""],
              origin |-> "executor",
              calls |-> <<call>>, results |-> <<>>, total |-> 0]
        ELSE [raised |-> FALSE, error |-> NoError, origin |-> "none",
              calls |-> <<call>>, results |-> ex.rows, total |-> ex.count]

\* routes.scan: the try/except around screener_service.scan.
ScanRoute_Retry(r, ex) ==
    LET s == ScanService(r, ex) IN
    IF ~s.raised
    THEN [status |-> 200, detail |-> NoError, prefix |-> "",
          results |-> s.results, total |-> s.total,
          calls |-> s.calls, origin |-> s.origin]
    ELSE [status |-> IF IsValueError(s.error.type) THEN 400 ELSE 500,
          detail |-> s.error,
          prefix |-> IF IsValueError(s.error.type) THEN "" ELSE "Scan failed: ",
          results |-> <<>>, total |-> 0,
          calls |-> s.calls \o s.calls, origin |-> s.origin]
ScanRoute(r, ex) ==
    LET s == ScanService(r, ex) IN
    IF ~s.raised
    THEN [status |-> 200, detail |-> NoError, prefix |-> "",
          results |-> s.results, total |-> s.total,
          calls |-> s.calls, origin |-> s.origin]
    ELSE IF IsValueError(s.error.type)
    THEN [status |-> 400, detail |-> s.error, prefix |-> "",
          results |-> <<>>, total |-> 0,
          calls |-> s.calls, origin |-> s.origin]
    ELSE [status |-> 500, detail |-> s.error, prefix |-> "Scan failed: ",
          results |-> <<>>, total |-> 0,
          calls |-> s.calls, origin |-> s.origin]

\* Request bodies posted to /scan. "like" stands for an op string outside
\* FilterOperator.
FilterOps == FilterOperator \cup {"like"}
FilterValues ==
    { [type |-> "int", items |-> <<"5">>],
      [type |-> "str", items |-> <<"x">>],
      [type |-> "list", items |-> <<>>],
      [type |-> "list", items |-> <<"5">>],
      [type |-> "list", items |-> <<"5", "7">>],
      [type |-> "list", items |-> <<"5", "7", "9">>] }
Filters == [field : {"close"}, op : FilterOps, value : FilterValues]
FilterLists == UNION {[1..n -> Filters] : n \in 0..MaxFilters}
ShortFilterLists == UNION {[1..n -> Filters] : n \in 0..1}
ColumnNames == {"name", "close", "volume"}
ColumnLists == UNION {[1..n -> ColumnNames] : n \in 0..MaxCols}
OptionalOf(S) == {None} \cup {Some(l) : l \in S}

\* models.ScanRequest defaults for the fields the requests leave out.
DefaultMarkets == <<"america">>
DefaultLimit == 50

\* Requests vary either in their columns or in the length of their filter list.
ScanRequests ==
    [columns : ColumnLists, filters : OptionalOf(ShortFilterLists),
     markets : {DefaultMarkets}, limit : {DefaultLimit}]
    \cup [columns : {<<"close">>}, filters : OptionalOf(FilterLists),
          markets : {DefaultMarkets}, limit : {DefaultLimit}]

NoScanResponse ==
    [status |-> 0, detail |-> NoError, prefix |-> "", results |-> <<>>, total |-> 0,
     origin |-> "none"]

\* A request body that fails pydantic validation never reaches routes.scan:
\* FastAPI answers 422.
RejectSchema ==
    /\ scanPc = "received"
    /\ ~ValidScanRequest(scanReq)
    /\ scanPc' = "done"
    /\ scanResp' = [status |-> 422,
                    detail |-> [type |-> "RequestValidationError", msg |-> "", op |-> ""],
                    prefix |-> "", results |-> <<>>, total |-> 0, origin |-> "schema"]
    /\ UNCHANGED <<scanReq, execLog, execRaised>>
    /\ UNCHANGED searchVars

\* routes.scan on a validated request, the executor answering ex.
Scan ==
    /\ scanPc = "received"
    /\ ValidScanRequest(scanReq)
    /\ \E ex \in ExecutorOutcomes :
        LET out == ScanRoute(scanReq, ex) IN
        /\ scanResp' = [status |-> out.status, detail |-> out.detail,
                        prefix |-> out.prefix, results |-> out.results,
                        total |-> out.total, origin |-> out.origin]
        /\ execLog' = out.calls
        /\ execRaised' = IF Len(out.calls) > 0 /\ ex.kind = "raise"
                         THEN ex.exc ELSE "none"
    /\ scanPc' = "done"
    /\ UNCHANGED scanReq
    /\ UNCHANGED searchVars

(***************************************************************************)
(*                       GET /tickers/search                               *)
(***************************************************************************)

\* str.upper() on the characters the model uses.
UpperChar(c) ==
    CASE c = "a" -> "A"
      [] c = "b" -> "B"
      [] OTHER -> c
Upper(s) == [i \in 1..Len(s) |-> UpperChar(s[i])]

\* s.startswith(p)
StartsWith(s, p) == Len(p) <= Len(s) /\ SubSeq(s, 1, Len(p)) = p

\* p in s
Contains(s, p) ==
    \E i \in 0..(Len(s) - Len(p)) : SubSeq(s, i + 1, i + Len(p)) = p

\* TickerResult(name=t["name"], description=t["description"], ...)
TickerResult(t) ==
    [name |-> t.name, description |-> t.description,
     exchange |-> t.exchange, type |-> t.type]

\* t["name"] in seen
AlreadySeen_Never(name, seen) == FALSE
AlreadySeen(name, seen) == name \in seen

\* First pass of search_tickers, from index i on: prefix match on the
\* upper-cased name, skipping names already seen, stopping at limit results.
RECURSIVE PrefixPass(_, _, _, _, _)
PrefixPass(tickers, query, limit, i, acc) ==
    IF i > Len(tickers)
    THEN acc
    ELSE LET t == tickers[i] IN
         IF StartsWith(Upper(t.name), query) /\ ~AlreadySeen(t.name, acc.seen)
         THEN LET next == [results |-> Append(acc.results, TickerResult(t)),
                           seen |-> acc.seen \cup {t.name}]
              IN  IF Len(next.results) >= limit
                  THEN next
                  ELSE PrefixPass(tickers, query, limit, i + 1, next)
         ELSE PrefixPass(tickers, query, limit, i + 1, acc)

\* (variant of the second pass that looks at the name alone)
RECURSIVE ContainsPass_NameOnly(_, _, _, _, _)
ContainsPass_NameOnly(tickers, query, limit, i, acc) ==
    IF i > Len(tickers)
    THEN acc
    ELSE LET t == tickers[i] IN
         IF AlreadySeen(t.name, acc.seen)
         THEN ContainsPass_NameOnly(tickers, query, limit, i + 1, acc)
         ELSE IF Contains(Upper(t.name), query)
         THEN LET next == [results |-> Append(acc.results, TickerResult(t)),
                           seen |-> acc.seen \cup {t.name}]
              IN  IF Len(next.results) >= limit
                  THEN next
                  ELSE ContainsPass_NameOnly(tickers, query, limit, i + 1, next)
         ELSE ContainsPass_NameOnly(tickers, query, limit, i + 1, acc)

\* Second pass of search_tickers, from index i on: substring match on the
\* upper-cased name or description, skipping names already seen.
RECURSIVE ContainsPass(_, _, _, _, _)
ContainsPass(tickers, query, limit, i, acc) ==
    IF i > Len(tickers)
    THEN acc
    ELSE LET t == tickers[i] IN
         IF AlreadySeen(t.name, acc.seen)
         THEN ContainsPass(tickers, query, limit, i + 1, acc)
         ELSE IF Contains(Upper(t.name), query) \/ Contains(Upper(t.description), query)
         THEN LET next == [results |-> Append(acc.results, TickerResult(t)),
                           seen |-> acc.seen \cup {t.name}]
              IN  IF Len(next.results) >= limit
                  THEN next
                  ELSE ContainsPass(tickers, query, limit, i + 1, next)
         ELSE ContainsPass(tickers, query, limit, i + 1, acc)

\* The results list after the first pass alone.
PrefixResults(tickers, q, limit) ==
    PrefixPass(tickers, Upper(q), limit, 1, [results |-> <<>>, seen |-> {}])

\* (variant of the guard of the second pass)
SearchResults_NoGuard(tickers, q, limit) ==
    ContainsPass(tickers, Upper(q), limit, 1, PrefixResults(tickers, q, limit)).results

\* The results list search_tickers builds from the loaded tickers.
SearchResults(tickers, q, limit) ==
    LET first == PrefixResults(tickers, q, limit) IN
    IF Len(first.results) < limit
    THEN ContainsPass(tickers, Upper(q), limit, 1, first).results
    ELSE first.results

\* Content of data/tickers.json:
\*   "missing"   - the file does not exist;
\*   "empty"     - the file exists and holds zero bytes: json.load raises
\*                 JSONDecodeError;
\*   "object"    - a JSON object whose "tickers" entry is absent, null or a list.
Missing == [kind |-> "missing", tickers |-> "absent", list |-> <<>>]
EmptyFile == [kind |-> "empty", tickers |-> "absent", list |-> <<>>]
ObjectNoKey == [kind |-> "object", tickers |-> "absent", list |-> <<>>]
ObjectNull == [kind |-> "object", tickers |-> "null", list |-> <<>>]
ObjectWith(l) == [kind |-> "object", tickers |-> "list", list |-> l]

\* _tickers_cache is None
CacheIsNone_Falsy(c) == ~Truthy(c)
CacheIsNone(c) == c.isNone

\* data.get("tickers", [])
GetTickers(f) ==
    CASE f.tickers = "absent" -> Some(<<>>)
      [] f.tickers = "null" -> None
      [] f.tickers = "list" -> Some(f.list)

\* routes._load_tickers on cache c and file f: the value returned (or the
\* exception raised), the new value of the cache, and the accesses to the file.
LoadTickers_ReturnEmptyOnLoad(c, f) ==
    IF CacheIsNone(c)
    THEN IF f.kind = "missing"
         THEN [raised |-> FALSE, ret |-> Some(<<>>), cache |-> c,
               probes |-> 1, opens |-> 0]
         ELSE IF f.kind = "empty"
         THEN [raised |-> TRUE, ret |-> None, cache |-> c,
               probes |-> 1, opens |-> 1]
         ELSE [raised |-> FALSE, ret |-> Some(<<>>), cache |-> GetTickers(f),
               probes |-> 1, opens |-> 1]
    ELSE [raised |-> FALSE, ret |-> c, cache |-> c, probes |-> 0, opens |-> 0]
LoadTickers_AlwaysReload(c, f) ==
    IF f.kind = "missing"
    THEN [raised |-> FALSE, ret |-> IF c.isNone THEN Some(<<>>) ELSE c, cache |-> c,
          probes |-> 1, opens |-> 0]
    ELSE IF f.kind = "empty"
    THEN [raised |-> TRUE, ret |-> None, cache |-> c, probes |-> 1, opens |-> 1]
    ELSE [raised |-> FALSE, ret |-> GetTickers(f), cache |-> GetTickers(f),
          probes |-> 1, opens |-> 1]
LoadTickers(c, f) ==
    IF CacheIsNone(c)
    THEN IF f.kind = "missing"
         THEN [raised |-> FALSE, ret |-> Some(<<>>), cache |-> c,
               probes |-> 1, opens |-> 0]
         ELSE IF f.kind = "empty"
         THEN [raised |-> TRUE, ret |-> None, cache |-> c,
               probes |-> 1, opens |-> 1]
         ELSE [raised |-> FALSE, ret |-> GetTickers(f), cache |-> GetTickers(f),
               probes |-> 1, opens |-> 1]
    ELSE [raised |-> FALSE, ret |-> c, cache |-> c, probes |-> 0, opens |-> 0]

\* Query(..., min_length=1) and Query(10, ge=1, le=50)
MinQueryLength == 1
LimitMin == 1
LimitMax == 50
ValidSearchParams(p) ==
    Len(p.q) >= MinQueryLength /\ p.limit >= LimitMin /\ p.limit <= LimitMax

NoSearchResponse ==
    [status |-> 0, results |-> <<>>, count |-> 0, used |-> None, error |-> "none"]

\* routes.search_tickers for parameters p on cache c and file f: the HTTP
\* response, the new cache and the file accesses. "used" is the list the
\* handler iterated over (None when it did not get that far).
SearchTickers(p, c, f) ==
    IF ~ValidSearchParams(p)
    THEN [resp |-> [status |-> 422, results |-> <<>>, count |-> 0, used |-> None,
                    error |-> "RequestValidationError"],
          cache |-> c, probes |-> 0, opens |-> 0]
    ELSE LET ld == LoadTickers(c, f) IN
         IF ld.raised
         THEN [resp |-> [status |-> 500, results |-> <<>>, count |-> 0, used |-> None,
                         error |-> "JSONDecodeError"],
               cache |-> ld.cache, probes |-> ld.probes, opens |-> ld.opens]
         ELSE IF ld.ret.isNone
         THEN [resp |-> [status |-> 500, results |-> <<>>, count |-> 0, used |-> None,
                         error |-> "TypeError"],
               cache |-> ld.cache, probes |-> ld.probes, opens |-> ld.opens]
         ELSE LET results == SearchResults(ld.ret.val, p.q, p.limit) IN
              [resp |-> [status |-> 200, results |-> results, count |-> Len(results),
                         used |-> ld.ret, error |-> "none"],
               cache |-> ld.cache, probes |-> ld.probes, opens |-> ld.opens]

\* Ticker records, ticker lists, and the query parameters of the requests.
TickerNames == {<<"A", "B">>, <<"B", "A">>, <<"a", "b">>, <<"B">>}
TickerDescriptions == {<<"a">>, <<"b">>}
TickerPool ==
    [name : TickerNames, description : TickerDescriptions,
     exchange : {"NASDAQ"}, type : {"stock"}]
TickerLists == UNION {[1..n -> TickerPool] : n \in 0..MaxTickers}
Queries == {<<>>, <<"A">>, <<"a">>, <<"B">>, <<"a", "B">>}
LimitInputs == (0..MaxTickers) \cup {LimitMax, LimitMax + 1}

Rec(n, d) == [name |-> n, description |-> d, exchange |-> "NASDAQ", type |-> "stock"]
SnapshotOne == <<Rec(<<"A", "B">>, <<"a">>)>>
SnapshotTwo == <<Rec(<<"B", "A">>, <<"b">>), Rec(<<"A", "B">>, <<"a">>)>>
CacheFiles ==
    {Missing, EmptyFile, ObjectNoKey, ObjectNull, ObjectWith(<<>>), ObjectWith(SnapshotOne)}
RefreshLists == {SnapshotOne, SnapshotTwo}
CacheQueries == {<<"A">>}
CacheLimits == {1, 2}

Requests == 1..MaxRequests
Arrived == {r \in Requests : pc[r] # "idle"}
Handled == {r \in Requests : pc[r] = "done"}

\* A GET /tickers/search request reaches the server; requests are numbered in
\* the order of their arrival.
Arrive(q, limit) ==
    /\ Cardinality(Arrived) < MaxRequests
    /\ LET r == Cardinality(Arrived) + 1 IN
       /\ pc' = [pc EXCEPT ![r] = "pending"]
       /\ req' = [req EXCEPT ![r] = [q |-> q, limit |-> limit]]
    /\ UNCHANGED <<file, cache, resp, obs, fileProbes, fileOpens, refreshes, writer>>
    /\ UNCHANGED scanVars

\* The event loop runs the handler of pending request r. search_tickers is an
\* async def without an await, so it runs to completion before any other
\* handler starts.
Handle(r) ==
    /\ pc[r] = "pending"
    /\ LET out == SearchTickers(req[r], cache, file) IN
       /\ resp' = [resp EXCEPT ![r] = out.resp]
       /\ cache' = out.cache
       /\ fileProbes' = fileProbes + out.probes
       /\ fileOpens' = fileOpens + out.opens
    /\ obs' = [obs EXCEPT ![r] = [file |-> file, cacheNone |-> cache.isNone,
                                  alongside |-> {o \in Requests \ {r} : pc[o] = "pending"}]]
    /\ pc' = [pc EXCEPT ![r] = "done"]
    /\ UNCHANGED <<file, req, refreshes, writer>>
    /\ UNCHANGED scanVars

\* fetch_tickers.save_tickers, run out of process: open(TICKERS_FILE, "w")
\* truncates the file, and json.dump then writes the new snapshot.
RefreshBegin ==
    /\ writer = "idle"
    /\ refreshes < MaxRefreshes
    /\ writer' = "writing"
    /\ file' = EmptyFile
    /\ refreshes' = refreshes + 1
    /\ UNCHANGED <<cache, pc, req, resp, obs, fileProbes, fileOpens>>
    /\ UNCHANGED scanVars

RefreshEnd(tickers) ==
    /\ writer = "writing"
    /\ writer' = "idle"
    /\ file' = ObjectWith(tickers)
    /\ UNCHANGED <<cache, pc, req, resp, obs, fileProbes, fileOpens, refreshes>>
    /\ UNCHANGED scanVars

(***************************************************************************)
(*                          Specifications                                 *)
(***************************************************************************)
ScanIdle ==
    /\ scanPc = "idle"
    /\ scanReq = [columns |-> <<>>, filters |-> None,
                  markets |-> DefaultMarkets, limit |-> DefaultLimit]
    /\ scanResp = NoScanResponse
    /\ execLog = <<>>
    /\ execRaised = "none"

SearchIdle ==
    /\ cache = None
    /\ pc = [r \in Requests |-> "idle"]
    /\ req = [r \in Requests |-> [q |-> <<>>, limit |-> 0]]
    /\ resp = [r \in Requests |-> NoSearchResponse]
    /\ obs = [r \in Requests |-> [file |-> Missing, cacheNone |-> TRUE, alongside |-> {}]]
    /\ fileProbes = 0
    /\ fileOpens = 0
    /\ refreshes = 0
    /\ writer = "idle"

\* /scan: one request body drawn from ScanRequests, then validated and served.
Init ==
    /\ scanPc = "received"
    /\ scanReq \in ScanRequests
    /\ scanResp = NoScanResponse
    /\ execLog = <<>>
    /\ execRaised = "none"
    /\ file = Missing
    /\ SearchIdle

Next == RejectSchema \/ Scan

Spec == Init /\ [][Next]_vars

\* /tickers/search as a function of the ticker list: one request against a
\* file holding any list of TickerLists.
SearchInit ==
    /\ ScanIdle
    /\ file \in {ObjectWith(l) : l \in TickerLists}
    /\ SearchIdle

SearchArrive == \E q \in Queries, limit \in LimitInputs : Arrived = {} /\ Arrive(q, limit)
SearchHandle == Handle(1)
SearchNext == SearchArrive \/ SearchHandle

SearchSpec == SearchInit /\ [][SearchNext]_vars

\* The lazy load: several requests, handled in any order, with the file in any
\* of its states and rewritten by the refresh script in between.
CacheInit ==
    /\ ScanIdle
    /\ file \in CacheFiles
    /\ SearchIdle

CacheArrive == \E q \in CacheQueries, limit \in CacheLimits : Arrive(q, limit)
CacheHandle == \E r \in Requests : Handle(r)
CacheRefreshEnd == \E l \in RefreshLists : RefreshEnd(l)
CacheNext == CacheArrive \/ CacheHandle \/ RefreshBegin \/ CacheRefreshEnd

CacheSpec == CacheInit /\ [][CacheNext]_vars

(***************************************************************************)
(*                     Properties of /tickers/search                       *)
(***************************************************************************)

\* sub is a subsequence of full: its elements occur in full, in the same order.
RECURSIVE IsSubsequence(_, _)
IsSubsequence(sub, full) ==
    IF Len(sub) = 0 THEN TRUE
    ELSE IF Len(full) = 0 THEN FALSE
    ELSE IF Head(sub) = Head(full)
    THEN IsSubsequence(Tail(sub), Tail(full))
    ELSE IsSubsequence(sub, Tail(full))

NoDuplicateNames(results) ==
    \A i, j \in 1..Len(results) : i # j => results[i].name # results[j].name

\* The record's name starts with the query, ignoring case.
NamePrefixMatch(rec, q) == StartsWith(Upper(rec.name), Upper(q))

\* The request of SearchSpec has been answered from a ticker list.
SearchAnswered == pc[1] = "done" /\ resp[1].status = 200

\* C1: the result of search_tickers holds no two records with the same name;
\* every record whose name starts with the query (ignoring case) comes before
\* every record that matches only as a substring; and each of the two groups
\* keeps the order of the underlying ticker list.
C1_PrefixFirstNoDuplicates ==
    SearchAnswered =>
        LET results == resp[1].results
            tickers == resp[1].used.val
            q == req[1].q
            IsPrefix(rec) == NamePrefixMatch(rec, q)
            IsOther(rec) == ~NamePrefixMatch(rec, q)
        IN  /\ NoDuplicateNames(results)
            /\ \A i, j \in 1..Len(results) :
                   (IsPrefix(results[i]) /\ IsOther(results[j])) => i < j
            /\ IsSubsequence(SelectSeq(results, IsPrefix), tickers)
            /\ IsSubsequence(SelectSeq(results, IsOther), tickers)

\* A search returned a prefix match followed by a substring-only match from a
\* list in which a name occurs twice and the substring match comes first.
C1_Witness ==
    /\ SearchAnswered
    /\ Len(resp[1].results) = 2
    /\ NamePrefixMatch(resp[1].results[1], req[1].q)
    /\ ~NamePrefixMatch(resp[1].results[2], req[1].q)
    /\ Len(resp[1].used.val) = 3
    /\ ~NoDuplicateNames(resp[1].used.val)
    /\ ~NamePrefixMatch(resp[1].used.val[1], req[1].q)
    /\ resp[1].used.val[1] = resp[1].results[2]

(***************************************************************************)
(*                         Properties of /scan                             *)
(***************************************************************************)

\* The argument rules of the operators, stated on the filter alone.
BadBetweenFilter(f) ==
    f.op \in {"between", "not_between"}
    /\ ~(f.value.type = "list" /\ Len(f.value.items) = 2)
BadInFilter(f) ==
    f.op \in {"in", "not_in"} /\ f.value.type # "list"
BadArguments(f) == BadBetweenFilter(f) \/ BadInFilter(f)

RequestFilters == scanReq.filters.val
FilterIndexes == 1..Len(RequestFilters)
BadIndexes == {i \in FilterIndexes : BadArguments(RequestFilters[i])}
FirstBadFilter ==
    RequestFilters[CHOOSE i \in BadIndexes : \A j \in BadIndexes : i <= j]

\* The request passed schema validation and routes.scan has answered it.
ScanServed == scanPc = "done" /\ ValidScanRequest(scanReq)

\* C2: a scan whose filter list holds, at any position, a between or
\* not_between filter whose value is not a list of exactly 2 elements fails
\* with HTTP 400 carrying a ValueError that names the operator of the first
\* filter with bad arguments, and the executor is not invoked.
C2_BadBetweenRejected ==
    (ScanServed /\ \E i \in FilterIndexes : BadBetweenFilter(RequestFilters[i])) =>
        /\ scanResp.status = 400
        /\ scanResp.detail.type = "ValueError"
        /\ scanResp.detail.op = FirstBadFilter.op
        /\ (BadBetweenFilter(FirstBadFilter) =>
                scanResp.detail.msg = "requires a list of exactly 2 values")
        /\ execLog = <<>>
        /\ scanResp.results = <<>>

\* A valid filter is followed by a between filter with a 3-element list.
C2_Witness ==
    /\ ScanServed
    /\ Len(RequestFilters) = 2
    /\ ~BadArguments(RequestFilters[1])
    /\ RequestFilters[2].op = "between"
    /\ Len(RequestFilters[2].value.items) = 3
    /\ scanResp.status = 400
    /\ scanResp.detail.op = "between"

\* C3: a filter with op in or not_in whose value is not a list is not turned
\* into a predicate: translation raises a ValueError naming the operator, the
\* scan answers HTTP 400 and the executor is not invoked.
C3_BadInRejected ==
    (ScanServed /\ \E i \in FilterIndexes : BadInFilter(RequestFilters[i])) =>
        /\ scanResp.status = 400
        /\ scanResp.detail.type = "ValueError"
        /\ scanResp.detail.op = FirstBadFilter.op
        /\ (BadInFilter(FirstBadFilter) =>
                scanResp.detail.msg = "requires a list of values")
        /\ execLog = <<>>

\* A not_in filter with a string value was rejected.
C3_Witness ==
    /\ ScanServed
    /\ Len(RequestFilters) = 1
    /\ RequestFilters[1].op = "not_in"
    /\ RequestFilters[1].value.type = "str"
    /\ scanResp.status = 400
    /\ scanResp.detail.op = "not_in"

HasDuplicates(s) == \E i, j \in 1..Len(s) : i # j /\ s[i] = s[j]
NameIn(s) == \E i \in 1..Len(s) : s[i] = "name"

\* C4 as stated: the column list handed to the executor holds no duplicate,
\* always holds name, has name at position 0 when the request did not name
\* it, and keeps the order of the requested columns.
C4_ColumnsDeduplicated ==
    (scanPc = "done" /\ Len(execLog) > 0) =>
        LET cols == execLog[1].columns IN
        /\ ~HasDuplicates(cols)
        /\ NameIn(cols)
        /\ (~NameIn(scanReq.columns) => cols[1] = "name")
        /\ IsSubsequence(scanReq.columns, cols)

\* C4 amended: the column list handed to the executor is the requested list,
\* with name put in front of it when it does not hold name. It always holds
\* name, keeps the requested columns in their order, and holds a duplicate
\* exactly when the request does: nothing is deduplicated.
C4_ColumnsNamePrepended ==
    (scanPc = "done" /\ Len(execLog) > 0) =>
        LET cols == execLog[1].columns IN
        /\ NameIn(cols)
        /\ (~NameIn(scanReq.columns) => cols = <<"name">> \o scanReq.columns)
        /\ (NameIn(scanReq.columns) => cols = scanReq.columns)
        /\ (HasDuplicates(cols) <=> HasDuplicates(scanReq.columns))

\* The executor was handed a repeated column behind the inserted name.
C4_Witness ==
    /\ scanPc = "done"
    /\ Len(execLog) = 1
    /\ scanReq.columns = <<"close", "close">>
    /\ execLog[1].columns = <<"name", "close", "close">>

\* C6 as stated: a failure raised by the executor, of whatever exception
\* type, is answered with HTTP 500 and the "Scan failed: " message; HTTP 400
\* is answered only for invalid filter arguments and HTTP 422 only for a
\* request that fails schema validation.
C6_ExecutorFailureIs500 ==
    scanPc = "done" =>
        /\ (execRaised # "none" =>
                scanResp.status = 500 /\ scanResp.prefix = "Scan failed: ")
        /\ (scanResp.status = 400 =>
                \E i \in FilterIndexes : BadArguments(RequestFilters[i]))
        /\ (scanResp.status = 422 => ~ValidScanRequest(scanReq))

\* The data-model invariant of Filter: in / not_in need a non-empty list, the
\* comparison operators need a scalar.
BreaksFilterInvariant(f) ==
    \/ (f.op \in {"in", "not_in"} /\ f.value.type = "list" /\ Len(f.value.items) = 0)
    \/ (f.op \in {"gt", "gte", "lt", "lte", "eq", "neq"} /\ f.value.type = "list")

\* C7 as stated: a request holding an in / not_in filter with an empty list,
\* or a comparison filter with a list value, is rejected with an argument
\* error, and no such filter reaches the executor as a predicate.
C7_FilterInvariantEnforced ==
    (ScanServed /\ \E i \in FilterIndexes : BreaksFilterInvariant(RequestFilters[i])) =>
        /\ scanResp.status = 400
        /\ scanResp.detail.type = "ValueError"
        /\ execLog = <<>>

\* C10: a scan fully succeeds or fully fails. The executor is invoked at most
\* once per request (never after a filter was rejected); a request with a
\* rejected filter, or whose executor call raised, is answered with an error
\* status and no result rows; no error response carries rows.
C10_AllOrNothing ==
    scanPc = "done" =>
        /\ Len(execLog) <= 1
        /\ ((ScanServed /\ BadIndexes # {}) =>
                scanResp.status \notin {0, 200} /\ execLog = <<>>)
        /\ (execRaised # "none" => scanResp.status \notin {0, 200})
        /\ (scanResp.status # 200 => scanResp.results = <<>> /\ scanResp.total = 0)
        /\ (scanResp.status = 200 =>
                Len(execLog) = 1 /\ execRaised = "none" /\ BadIndexes = {})

\* The executor was invoked once, raised, and the answer is an error without
\* rows.
C10_Witness ==
    /\ scanPc = "done"
    /\ Len(execLog) = 1
    /\ execRaised = "HTTPError"
    /\ Len(RequestFilters) = 2
    /\ scanResp.status = 500
    /\ scanResp.results = <<>>

(***************************************************************************)
(*                  Properties of the lazy ticker load                     *)
(***************************************************************************)

\* C5 as stated: across any sequence of searches the source is accessed by
\* exactly one request, the first, whatever its state was then.
C5_ReadExactlyOnce ==
    Handled # {} => fileProbes = 1

\* A step in which the handler of a request ran.
HandlerStep == \E r \in Requests : pc[r] = "pending" /\ pc'[r] = "done"

\* C5 amended: a request that finds the cache unset and the file present with
\* a ticker list (possibly empty, or no tickers entry) opens the file once and
\* caches the list; once a list is cached no request checks or opens the file
\* again. A request that finds the file missing caches nothing.
C5_ReadOnceWhenLoaded ==
    [][ /\ (~cache.isNone => (fileProbes' = fileProbes /\ fileOpens' = fileOpens))
        /\ ((HandlerStep /\ cache.isNone /\ file.kind = "object" /\ file.tickers # "null")
                => (fileOpens' = fileOpens + 1 /\ cache' = GetTickers(file)))
        /\ ((HandlerStep /\ cache.isNone /\ file.kind = "missing")
                => (cache'.isNone /\ fileOpens' = fileOpens))
      ]_vars

\* Three requests were served from an empty list that was read once, and the
\* file was rewritten since.
C5_Witness ==
    /\ Cardinality(Handled) = 3
    /\ cache = Some(<<>>)
    /\ fileOpens = 1
    /\ fileProbes = 1
    /\ refreshes > 0
    /\ file = ObjectWith(SnapshotTwo)

\* The file holds a ticker list (an object whose tickers entry is a list or
\* is absent).
HoldsTickerList(f) == f.kind = "object" /\ f.tickers # "null"

\* C8: first requests in flight together, the file not being rewritten
\* meanwhile, are served in any order from one and the same list, the whole
\* list of the file, which is also what the cache ends up holding.
C8_ConcurrentFirstLoad ==
    refreshes = 0 =>
        /\ \A r1, r2 \in Handled :
               resp[r1].status = resp[r2].status /\ resp[r1].used = resp[r2].used
        /\ \A r \in Handled :
               /\ (HoldsTickerList(file) =>
                       /\ resp[r].status = 200
                       /\ resp[r].used = GetTickers(file)
                       /\ cache = GetTickers(file))
               /\ (file.kind = "missing" =>
                       resp[r].status = 200 /\ resp[r].used = Some(<<>>))

\* Two requests were pending together with the cache unset, were handled in
\* the reverse order of their arrival, and both used the list of the file.
C8_Witness ==
    /\ refreshes = 0
    /\ pc[1] = "done" /\ pc[2] = "done"
    /\ 1 \in obs[2].alongside
    /\ obs[2].cacheNone
    /\ ~obs[1].cacheNone
    /\ file = ObjectWith(SnapshotOne)
    /\ resp[1].used = Some(SnapshotOne)
    /\ resp[2].used = Some(SnapshotOne)
    /\ cache = Some(SnapshotOne)

\* C9 as stated: a search that finds the backing file missing, or present but
\* empty (zero bytes, no tickers entry, or an empty list), answers 200 with
\* results = [] and count = 0.
C9_EmptySourceNoError ==
    \A r \in Handled :
        (obs[r].cacheNone
         /\ obs[r].file \in {Missing, EmptyFile, ObjectNoKey, ObjectWith(<<>>)}) =>
            /\ resp[r].status = 200
            /\ resp[r].results = <<>>
            /\ resp[r].count = 0

(***************************************************************************)
(*              Combination of the filters, unknown operators              *)
(***************************************************************************)

\* The filters of the request as a list (None counts as no filter).
FiltersOrEmpty(r) == IF r.filters.isNone THEN <<>> ELSE r.filters.val

\* Two sequences hold the same elements the same number of times.
Occurrences(x, seq) == Cardinality({i \in 1..Len(seq) : seq[i] = x})
SameConditions(a, b) ==
    /\ Len(a) = Len(b)
    /\ \A i \in 1..Len(a) : Occurrences(a[i], a) = Occurrences(a[i], b)

\* The predicate the executor is handed for request r when translation succeeds.
PredicateHanded(r) ==
    ScanService(r, CHOOSE ex \in ExecutorOutcomes : ex.kind = "ok").calls[1].predicate

\* C11: the predicate handed to the executor follows the number of filters:
\* none (absent or empty list) - no predicate; one - the condition of that
\* filter, applied directly; two or more - the And of the conditions of all
\* filters, each exactly once; and any permutation of the filter list gives
\* a predicate of the same kind over the same conditions.
C11_PredicateByFilterCount ==
    (scanPc = "done" /\ Len(execLog) = 1) =>
        LET fs == FiltersOrEmpty(scanReq)
            pred == execLog[1].predicate
        IN  /\ (Len(fs) = 0 => pred.kind = "none" /\ pred.conds = <<>>)
            /\ (Len(fs) = 1 =>
                    pred.kind = "where" /\ pred.conds = <<BuildCondition(fs[1]).cond>>)
            /\ (Len(fs) >= 2 =>
                    /\ pred.kind = "where2_And"
                    /\ Len(pred.conds) = Len(fs)
                    /\ \A i \in 1..Len(fs) : pred.conds[i] = BuildCondition(fs[i]).cond)
            /\ \A p \in Permutations(1..Len(fs)) :
                   LET permuted == [scanReq EXCEPT
                                       !.filters = Some([i \in 1..Len(fs) |-> fs[p[i]]])]
                       other == PredicateHanded(permuted)
                   IN  Len(fs) >= 1 =>
                           other.kind = pred.kind /\ SameConditions(other.conds, pred.conds)

\* The executor was handed the And of the conditions of two different filters.
C11_Witness ==
    /\ scanPc = "done"
    /\ Len(execLog) = 1
    /\ Len(FiltersOrEmpty(scanReq)) = 2
    /\ scanReq.filters.val[1].op = "gt"
    /\ scanReq.filters.val[2].op = "between"
    /\ execLog[1].predicate.kind = "where2_And"
    /\ Len(execLog[1].predicate.conds) = 2
    /\ execLog[1].predicate.conds[1] # execLog[1].predicate.conds[2]

\* The request holds a filter whose op is outside FilterOperator.
HasUnknownOp(r) ==
    \E i \in 1..Len(FiltersOrEmpty(r)) : FiltersOrEmpty(r)[i].op \notin FilterOperator

\* C12 as stated: a filter with an op outside the ten operators makes the scan
\* answer HTTP 400 with the unrecognized-operator error, and no predicate is
\* handed to the executor.
C12_UnknownOpIs400 ==
    (scanPc = "done" /\ Len(scanReq.columns) >= 1 /\ HasUnknownOp(scanReq)) =>
        /\ scanResp.status = 400
        /\ scanResp.detail.msg = "Unknown filter operator"
        /\ execLog = <<>>

\* C12 amended: a request holding a filter with an op outside the ten
\* operators fails schema validation: it is answered HTTP 422 before any
\* filter is translated, and nothing is handed to the executor.
\* _build_condition itself raises the ValueError "Unknown filter operator"
\* for such a filter and builds no condition.
C12_UnknownOpIs422 ==
    (scanPc = "done" /\ HasUnknownOp(scanReq)) =>
        /\ scanResp.status = 422
        /\ scanResp.origin = "schema"
        /\ execLog = <<>>
        /\ \A i \in 1..Len(FiltersOrEmpty(scanReq)) :
               LET f == FiltersOrEmpty(scanReq)[i] IN
               f.op \notin FilterOperator =>
                   /\ BuildCondition(f).raised
                   /\ BuildCondition(f).error =
                          ValueErrorOf("Unknown filter operator", f.op)

\* A request with valid columns whose second filter has an unknown op was
\* answered 422.
C12_Witness ==
    /\ scanPc = "done"
    /\ Len(scanReq.columns) >= 1
    /\ Len(FiltersOrEmpty(scanReq)) = 2
    /\ scanReq.filters.val[1].op = "gt"
    /\ scanReq.filters.val[2].op = "like"
    /\ scanResp.status = 422

(***************************************************************************)
(*          The loaded index is never changed; limit and completeness      *)
(***************************************************************************)

\* C13: once a ticker list has been loaded, no step changes it: neither a
\* search request nor a rewrite of the backing file changes the cached list
\* or a record in it, and every request handled after the load is answered
\* from exactly that list.
C13_LoadedIndexImmutable ==
    [][ ~cache.isNone =>
            /\ cache' = cache
            /\ \A r \in Requests :
                   (pc[r] = "pending" /\ pc'[r] = "done") =>
                       resp'[r].status = 200 /\ resp'[r].used = cache
      ]_vars

\* A request was answered from the list loaded first although the file has
\* been rewritten with another list since.
C13_Witness ==
    /\ cache = Some(SnapshotOne)
    /\ file = ObjectWith(SnapshotTwo)
    /\ \E r \in Handled :
           /\ ~obs[r].cacheNone
           /\ obs[r].file = ObjectWith(SnapshotTwo)
           /\ resp[r].used = Some(SnapshotOne)

\* The record matches the query in its name or its description, ignoring case.
MatchesQuery(rec, q) ==
    Contains(Upper(rec.name), Upper(q)) \/ Contains(Upper(rec.description), Upper(q))

\* The results that match the query only as a substring.
SubstringOnly(results, q) == {i \in 1..Len(results) : ~NamePrefixMatch(results[i], q)}

\* C14: for a limit in 1..50, search_tickers returns at most limit records,
\* count is the number of records returned, and the substring pass adds records
\* only when the prefix pass found fewer than limit: when a substring-only
\* record is returned, fewer than limit prefix matches are, and they are all
\* the names of the list that start with the query.
C14_LimitAndCount ==
    SearchAnswered =>
        LET results == resp[1].results
            tickers == resp[1].used.val
            q == req[1].q
            limit == req[1].limit
        IN  /\ limit \in LimitMin..LimitMax
            /\ Len(results) <= limit
            /\ resp[1].count = Len(results)
            /\ (SubstringOnly(results, q) # {} =>
                    /\ Len(results) - Cardinality(SubstringOnly(results, q)) < limit
                    /\ \A i \in 1..Len(tickers) :
                           NamePrefixMatch(tickers[i], q) =>
                               \E j \in 1..Len(results) : results[j].name = tickers[i].name)
            /\ (Len(PrefixResults(tickers, q, limit).results) >= limit =>
                    results = PrefixResults(tickers, q, limit).results)

\* The prefix pass alone filled the limit of 2 although the list holds a
\* third, substring-only match.
C14_Witness ==
    /\ SearchAnswered
    /\ req[1].limit = 2
    /\ Len(resp[1].results) = 2
    /\ resp[1].count = 2
    /\ SubstringOnly(resp[1].results, req[1].q) = {}
    /\ Len(resp[1].used.val) = 3
    /\ \E i \in 1..3 :
           /\ MatchesQuery(resp[1].used.val[i], req[1].q)
           /\ ~NamePrefixMatch(resp[1].used.val[i], req[1].q)
           /\ \A j \in 1..2 : resp[1].results[j].name # resp[1].used.val[i].name

\* C15: when search_tickers returns fewer than limit records, every record of
\* the list that matches the query in its name or description has its name
\* among the returned records; and every returned record matches the query.
C15_CompleteBelowLimit ==
    SearchAnswered =>
        LET results == resp[1].results
            tickers == resp[1].used.val
            q == req[1].q
        IN  /\ \A j \in 1..Len(results) : MatchesQuery(results[j], q)
            /\ (Len(results) < req[1].limit =>
                    \A i \in 1..Len(tickers) :
                        MatchesQuery(tickers[i], q) =>
                            \E j \in 1..Len(results) : results[j].name = tickers[i].name)

\* Fewer than limit records were returned, one of them matching by its
\* description alone, and a record of the list that does not match was left out.
C15_Witness ==
    /\ SearchAnswered
    /\ Len(resp[1].results) = 2
    /\ req[1].limit = 3
    /\ Len(resp[1].used.val) = 3
    /\ \E j \in 1..2 :
           /\ ~Contains(Upper(resp[1].results[j].name), Upper(req[1].q))
           /\ Contains(Upper(resp[1].results[j].description), Upper(req[1].q))
    /\ \E i \in 1..3 : ~MatchesQuery(resp[1].used.val[i], req[1].q)

====
